---- MODULE Spec2Model ----
(***************************************************************************)
(* Threshold trading bot: the polling loop of run_threshold_strategy       *)
(* (bot/strategy.py) driving the UpstoxClient gateway                      *)
(* (bot/upstox_client.py).                                                 *)
(*                                                                         *)
(* Prices, clock readings and the cooldown are small naturals standing for *)
(* the floats of the program; only their order and differences matter to   *)
(* the loop.                                                               *)
(***************************************************************************)
EXTENDS Integers, Sequences, FiniteSets, TLC

\* ---------------------------------------------------------------- bounds
MaxPrice == 2      \* quotes and thresholds range over 1..MaxPrice
MaxTime == 1       \* time.time() readings range over 0..MaxTime
MaxCooldown == 1   \* cooldown_sec ranges over 0..MaxCooldown
MaxQty == 1        \* quantity ranges over -1..MaxQty
MaxCap == 1        \* max_trades, when set, ranges over 1..MaxCap
MaxTrades == 2     \* iterations start only while total_trades < MaxTrades
MaxField == 1      \* numbers in an HTTP body range over 0..MaxField

\* Optional[...] = None of the keyword arguments
None == -1

Prices == 1..MaxPrice
Times == 0..MaxTime
Quantities == {-1} \cup (0..MaxQty)

VARIABLES
    \* arguments of run_threshold_strategy
    buy_below, sell_above, quantity, max_trades, cooldown_sec,
    \* UpstoxClient
    dry_run, access_token, HAS_UPSTOX_SDK, sdk,
    \* StrategyState
    position_qty, total_trades, last_trade_time,
    \* locals of run_threshold_strategy
    stop, last_price, now, can_trade,
    \* position of the loop
    pc,
    \* observation of the run: what the last step did, the exception it
    \* saw, the last place_market_order call, and why the loop was left
    lastEvent, lastErr, lastOrder, exitReason, fetchedOk,
    \* observation of the gateway: the backend that served the last get_ltp
    \* call and the HTTP response it read
    quoteBackend, lastResp

args == <<buy_below, sell_above, quantity, max_trades, cooldown_sec>>
client == <<dry_run, access_token, HAS_UPSTOX_SDK, sdk>>
state == <<position_qty, total_trades, last_trade_time>>
locals == <<last_price, now, can_trade>>
obs == <<lastEvent, lastErr, lastOrder, exitReason, fetchedOk>>
gw == <<quoteBackend, lastResp>>
vars == <<args, client, state, stop, locals, pc, obs, gw>>

NoOrder == [side |-> "NONE", qty |-> 0, pos |-> 0, stop |-> FALSE, backend |-> "none"]

\* ------------------------------------------------------------ the gateway

\* Exceptions the gateway raises, by class
ErrClass(err) ==
    CASE err = "NoCredentials" -> "RuntimeError"
      [] err = "ApiError"      -> "RuntimeError"
      [] err = "BadShape"      -> "RuntimeError"
      [] err = "Validation"    -> "ValueError"
      [] err = "Network"       -> "RequestException"
      [] OTHER                 -> "Exception"

Ok(p) == [ok |-> TRUE, price |-> p, err |-> "none"]
Err(e) == [ok |-> FALSE, price |-> 0, err |-> e]

SdkSessions_WithoutToken(hasSdk, token) ==
    IF hasSdk THEN {TRUE, FALSE} ELSE {FALSE}

\* UpstoxClient.__init__: the SDK session is attempted only with the SDK
\* importable and an access token, and the attempt may fail
SdkSessions(hasSdk, token) ==
    IF hasSdk /\ token THEN {TRUE, FALSE} ELSE {FALSE}

QuoteBackend_DryRunAlwaysSim(dr, token, s, hasSdk) ==
    IF dr THEN "SIM"
    ELSE IF token THEN "HTTP"
    ELSE IF s /\ hasSdk THEN "SDK"
    ELSE "NONE"

\* get_ltp: which backend serves the quote
QuoteBackend(dr, token, s, hasSdk) ==
    IF dr /\ ~token THEN "SIM"
    ELSE IF token THEN "HTTP"
    ELSE IF s /\ hasSdk THEN "SDK"
    ELSE "NONE"

\* A field of the JSON body: absent (None) or a number
FieldVals == {None} \cup (0..MaxField)

NoResp ==
    [ok |-> FALSE, hasNode |-> FALSE, ltp |-> None, last_price |-> None,
     last_traded_price |-> None, close |-> None, top |-> None]

\* The HTTP answer of /market/quotes/ltp as get_ltp reads it: resp.ok,
\* whether data["data"] holds a dict node for the instrument, the four
\* price fields of that node, and the top-level "ltp". The body of a
\* failed request and the fields of a missing node are never read and are
\* left at None
HttpResponses ==
    {NoResp}
    \cup [ok : {TRUE}, hasNode : {FALSE},
          ltp : {None}, last_price : {None},
          last_traded_price : {None}, close : {None},
          top : FieldVals]
    \cup [ok : {TRUE}, hasNode : {TRUE},
          ltp : FieldVals, last_price : FieldVals,
          last_traded_price : FieldVals, close : FieldVals,
          top : FieldVals]

\* Python's "a or b": a when a is truthy (neither None nor 0), else b
PyOr(a, b) == IF a # None /\ a # 0 THEN a ELSE b

\* lines 96-101: ltp or last_price or last_traded_price or close
NodePrice(r) ==
    PyOr(r.ltp, PyOr(r.last_price, PyOr(r.last_traded_price, r.close)))

\* lines 87-107 with _request (64-73): the live HTTP quote
http_ltp(r) ==
    IF ~r.ok THEN Err("ApiError")
    ELSE LET inNode == IF r.hasNode THEN NodePrice(r) ELSE None
             found == IF inNode = None /\ r.top # None THEN r.top ELSE inNode
         IN  IF found = None THEN Err("BadShape") ELSE Ok(found)

\* get_ltp: the results the call can have. For the loop the HTTP results
\* are the quotes in Prices and the three failures; http_ltp gives the
\* result for each response body
get_ltp ==
    LET b == QuoteBackend(dry_run, access_token, sdk, HAS_UPSTOX_SDK) IN
    CASE b = "SIM"  -> {Ok(p) : p \in Prices}
      [] b = "HTTP" -> {Ok(p) : p \in Prices}
                         \cup {Err("ApiError"), Err("BadShape"), Err("Network")}
      [] b = "SDK"  -> {Ok(p) : p \in Prices} \cup {Err("BadShape")}
      [] OTHER      -> {Err("NoCredentials")}

\* str.upper() on the sides the callers pass
Upper(transaction_type) ==
    CASE transaction_type = "buy"  -> "BUY"
      [] transaction_type = "sell" -> "SELL"
      [] transaction_type = "hold" -> "HOLD"
      [] OTHER                     -> transaction_type

OrderBackend_TokenFirst(transaction_type, qty, dr, token, s, hasSdk) ==
    IF Upper(transaction_type) \notin {"BUY", "SELL"} THEN "INVALID"
    ELSE IF qty <= 0 THEN "INVALID"
    ELSE IF token THEN "HTTP"
    ELSE IF dr THEN "DRY"
    ELSE IF s /\ hasSdk THEN "SDK"
    ELSE "NONE"

OrderBackend_DryRunFirst(transaction_type, qty, dr, token, s, hasSdk) ==
    IF dr THEN "DRY"
    ELSE IF Upper(transaction_type) \notin {"BUY", "SELL"} THEN "INVALID"
    ELSE IF qty <= 0 THEN "INVALID"
    ELSE IF token THEN "HTTP"
    ELSE IF s /\ hasSdk THEN "SDK"
    ELSE "NONE"

\* place_market_order: what handles the order, in the order of the checks
OrderBackend(transaction_type, qty, dr, token, s, hasSdk) ==
    IF Upper(transaction_type) \notin {"BUY", "SELL"} THEN "INVALID"
    ELSE IF qty <= 0 THEN "INVALID"
    ELSE IF dr THEN "DRY"
    ELSE IF token THEN "HTTP"
    ELSE IF s /\ hasSdk THEN "SDK"
    ELSE "NONE"

\* place_market_order: the results the call can have
place_market_order(transaction_type, qty) ==
    LET b == OrderBackend(transaction_type, qty, dry_run, access_token,
                          sdk, HAS_UPSTOX_SDK) IN
    CASE b = "INVALID" -> {Err("Validation")}
      [] b = "DRY"     -> {Ok(0)}
      [] b = "HTTP"    -> {Ok(0), Err("ApiError"), Err("Network")}
      [] b = "SDK"     -> {Ok(0), Err("ApiError")}
      [] OTHER         -> {Err("NoCredentials")}

\* ------------------------------------------------------------- the engine

Caught_OnlyRuntimeError(err) == ErrClass(err) = "RuntimeError"

\* "except Exception": every exception class of the gateway derives from it
Caught(err) ==
    ErrClass(err) \in {"Exception", "RuntimeError", "ValueError", "RequestException"}

\* max_trades is not None and state.total_trades >= max_trades
CapReached == max_trades # None /\ total_trades >= max_trades

\* can_trade = now - state.last_trade_time >= cooldown_sec
CanTrade(t, last, cd) == t - last >= cd

BuyCond_NoPositionCheck ==
    buy_below # None /\ last_price <= buy_below /\ can_trade

BuyCond ==
    buy_below # None /\ position_qty = 0 /\ last_price <= buy_below /\ can_trade

SellCond_NoPositionCheck ==
    sell_above # None /\ last_price >= sell_above /\ can_trade

SellCond ==
    sell_above # None /\ position_qty > 0 /\ last_price >= sell_above /\ can_trade

Init ==
    /\ buy_below \in Prices \cup {None}
    /\ sell_above \in Prices \cup {None}
    /\ quantity \in Quantities
    /\ max_trades \in (1..MaxCap) \cup {None}
    /\ cooldown_sec \in 0..MaxCooldown
    /\ dry_run \in BOOLEAN
    /\ access_token \in BOOLEAN
    /\ HAS_UPSTOX_SDK \in BOOLEAN
    /\ sdk \in SdkSessions(HAS_UPSTOX_SDK, access_token)
    /\ position_qty = 0
    /\ total_trades = 0
    /\ last_trade_time = 0
    /\ stop = FALSE
    /\ last_price = 0
    /\ now = 0
    /\ can_trade = FALSE
    /\ pc = "start"
    /\ lastEvent = "init"
    /\ lastErr = "none"
    /\ lastOrder = NoOrder
    /\ exitReason = "none"
    /\ fetchedOk = FALSE
    /\ quoteBackend = "none"
    /\ lastResp = NoResp

Construct_NoThresholdCheck ==
    /\ pc = "start"
    /\ pc' = "loop"
    /\ exitReason' = "none"
    /\ lastEvent' = "constructed"
    /\ position_qty' = 0
    /\ total_trades' = 0
    /\ last_trade_time' = 0
    /\ stop' = FALSE
    /\ UNCHANGED <<args, client, locals, lastErr, lastOrder, fetchedOk, gw>>

\* lines 31-42: the threshold check, the fresh StrategyState, the handler
Construct ==
    /\ pc = "start"
    /\ IF buy_below = None /\ sell_above = None
       THEN /\ pc' = "raised"
            /\ exitReason' = "ValueError"
            /\ lastEvent' = "construct_failed"
       ELSE /\ pc' = "loop"
            /\ exitReason' = "none"
            /\ lastEvent' = "constructed"
    /\ position_qty' = 0
    /\ total_trades' = 0
    /\ last_trade_time' = 0
    /\ stop' = FALSE
    /\ UNCHANGED <<args, client, locals, lastErr, lastOrder, fetchedOk, gw>>

\* lines 38-40: SIGINT arrives while the loop runs
handle_sigint ==
    /\ pc \in {"loop", "fetch", "buy", "sell", "sleep"}
    /\ ~stop
    /\ stop' = TRUE
    /\ UNCHANGED <<args, client, state, locals, pc, obs, gw>>

LoopTop_IgnoresStop ==
    /\ pc = "loop"
    /\ IF CapReached
       THEN /\ pc' = "exit"
            /\ exitReason' = "cap"
            /\ lastEvent' = "loop_exit"
       ELSE /\ total_trades < MaxTrades
            /\ pc' = "fetch"
            /\ exitReason' = "none"
            /\ lastEvent' = "loop_enter"
    /\ UNCHANGED <<args, client, state, stop, locals, lastErr, lastOrder, fetchedOk, gw>>

\* lines 44-47: the loop condition and the cap
LoopTop ==
    /\ pc = "loop"
    /\ IF stop
       THEN /\ pc' = "exit"
            /\ exitReason' = "stop"
            /\ lastEvent' = "loop_exit"
       ELSE IF CapReached
       THEN /\ pc' = "exit"
            /\ exitReason' = "cap"
            /\ lastEvent' = "loop_exit"
       ELSE /\ total_trades < MaxTrades
            /\ pc' = "fetch"
            /\ exitReason' = "none"
            /\ lastEvent' = "loop_enter"
    /\ UNCHANGED <<args, client, state, stop, locals, lastErr, lastOrder, fetchedOk, gw>>

FetchFailed_CountsTrade(r) ==
    /\ pc' = "sleep"
    /\ lastEvent' = "fetch_fail"
    /\ lastErr' = r.err
    /\ total_trades' = total_trades + 1
    /\ UNCHANGED <<position_qty, last_trade_time, locals, exitReason, fetchedOk>>

\* lines 52-55: the fetch raised; report, sleep, continue
FetchFailed(r) ==
    /\ pc' = "sleep"
    /\ lastEvent' = "fetch_fail"
    /\ lastErr' = r.err
    /\ UNCHANGED <<state, locals, exitReason, fetchedOk>>

\* lines 49-58: the quote, the clock reading and the cooldown snapshot
Fetch ==
    /\ pc = "fetch"
    /\ \E r \in get_ltp :
         IF r.ok
         THEN \E t \in Times :
                /\ last_price' = r.price
                /\ now' = t
                /\ can_trade' = CanTrade(t, last_trade_time, cooldown_sec)
                /\ pc' = "buy"
                /\ lastEvent' = "fetch_ok"
                /\ lastErr' = "none"
                /\ fetchedOk' = TRUE
                /\ UNCHANGED <<state, exitReason>>
         ELSE IF Caught(r.err)
         THEN FetchFailed(r)
         ELSE /\ pc' = "raised"
              /\ exitReason' = "propagated"
              /\ lastEvent' = "fetch_raise"
              /\ lastErr' = r.err
              /\ UNCHANGED <<state, locals, fetchedOk>>
    /\ quoteBackend' = QuoteBackend(dry_run, access_token, sdk, HAS_UPSTOX_SDK)
    /\ UNCHANGED <<args, client, stop, lastOrder, lastResp>>

BuyFilled_Double ==
    /\ position_qty' = position_qty + quantity
    /\ total_trades' = total_trades + 2
    /\ last_trade_time' = now

\* lines 67-70: the buy order went through
BuyFilled ==
    /\ position_qty' = position_qty + quantity
    /\ total_trades' = total_trades + 1
    /\ last_trade_time' = now

BuyFailed_Mutating ==
    /\ position_qty' = position_qty + quantity
    /\ UNCHANGED <<total_trades, last_trade_time>>

\* lines 71-72: the buy order raised; report only
BuyFailed ==
    UNCHANGED <<position_qty, total_trades, last_trade_time>>

\* lines 60-72: the buy evaluation
Buy ==
    /\ pc = "buy"
    /\ IF BuyCond
       THEN /\ lastOrder' = [side |-> "BUY", qty |-> quantity, pos |-> position_qty,
                             stop |-> stop,
                             backend |-> OrderBackend("BUY", quantity, dry_run,
                                             access_token, sdk, HAS_UPSTOX_SDK)]
            /\ \E r \in place_market_order("BUY", quantity) :
                 IF r.ok
                 THEN /\ BuyFilled
                      /\ pc' = "sell"
                      /\ lastEvent' = "buy_ok"
                      /\ lastErr' = "none"
                      /\ UNCHANGED exitReason
                 ELSE IF Caught(r.err)
                 THEN /\ BuyFailed
                      /\ pc' = "sell"
                      /\ lastEvent' = "buy_fail"
                      /\ lastErr' = r.err
                      /\ UNCHANGED exitReason
                 ELSE /\ pc' = "raised"
                      /\ exitReason' = "propagated"
                      /\ lastEvent' = "buy_raise"
                      /\ lastErr' = r.err
                      /\ UNCHANGED state
       ELSE /\ pc' = "sell"
            /\ lastEvent' = "buy_skip"
            /\ lastErr' = "none"
            /\ UNCHANGED <<state, lastOrder, exitReason>>
    /\ UNCHANGED <<args, client, stop, locals, fetchedOk, gw>>

\* lines 81-84: the sell order went through; the whole position is closed
SellFilled ==
    /\ total_trades' = total_trades + 1
    /\ position_qty' = 0
    /\ last_trade_time' = now

\* lines 85-86: the sell order raised; report only
SellFailed ==
    UNCHANGED <<position_qty, total_trades, last_trade_time>>

\* lines 74-86: the sell evaluation, on the snapshot taken before the buy
Sell ==
    /\ pc = "sell"
    /\ IF SellCond
       THEN /\ lastOrder' = [side |-> "SELL", qty |-> position_qty, pos |-> position_qty,
                             stop |-> stop,
                             backend |-> OrderBackend("SELL", position_qty, dry_run,
                                             access_token, sdk, HAS_UPSTOX_SDK)]
            /\ \E r \in place_market_order("SELL", position_qty) :
                 IF r.ok
                 THEN /\ SellFilled
                      /\ pc' = "sleep"
                      /\ lastEvent' = "sell_ok"
                      /\ lastErr' = "none"
                      /\ UNCHANGED exitReason
                 ELSE IF Caught(r.err)
                 THEN /\ SellFailed
                      /\ pc' = "sleep"
                      /\ lastEvent' = "sell_fail"
                      /\ lastErr' = r.err
                      /\ UNCHANGED exitReason
                 ELSE /\ pc' = "raised"
                      /\ exitReason' = "propagated"
                      /\ lastEvent' = "sell_raise"
                      /\ lastErr' = r.err
                      /\ UNCHANGED state
       ELSE /\ pc' = "sleep"
            /\ lastEvent' = "sell_skip"
            /\ lastErr' = "none"
            /\ UNCHANGED <<state, lastOrder, exitReason>>
    /\ UNCHANGED <<args, client, stop, locals, fetchedOk, gw>>

\* lines 54 and 88: time.sleep(poll_interval_sec), then the next iteration
Sleep ==
    /\ pc = "sleep"
    /\ pc' = "loop"
    /\ lastEvent' = "slept"
    /\ UNCHANGED <<args, client, state, stop, locals, lastErr, lastOrder,
                   exitReason, fetchedOk, gw>>

Exit_Liquidates ==
    /\ pc = "exit"
    /\ pc' = "done"
    /\ lastEvent' = "exit_quiet"
    /\ position_qty' = 0
    /\ UNCHANGED <<args, client, total_trades, last_trade_time, stop, locals,
                   lastErr, lastOrder, exitReason, fetchedOk, gw>>

\* lines 90-91: the open-position warning after the loop
Exit ==
    /\ pc = "exit"
    /\ pc' = "done"
    /\ lastEvent' = IF position_qty > 0 THEN "exit_warning" ELSE "exit_quiet"
    /\ UNCHANGED <<args, client, state, stop, locals, lastErr, lastOrder,
                   exitReason, fetchedOk, gw>>

Next ==
    \/ Construct
    \/ handle_sigint
    \/ LoopTop
    \/ Fetch
    \/ Buy
    \/ Sell
    \/ Sleep
    \/ Exit

Spec == Init /\ [][Next]_vars

\* ------------------------------------------- the gateway called directly

\* The sides a caller may pass to place_market_order
SideInputs == {"BUY", "SELL", "buy", "sell", "HOLD"}

\* A client as UpstoxClient.__init__ leaves it, the strategy not started
GwInit ==
    /\ buy_below = None
    /\ sell_above = None
    /\ quantity = 1
    /\ max_trades = None
    /\ cooldown_sec = 0
    /\ dry_run \in BOOLEAN
    /\ access_token \in BOOLEAN
    /\ HAS_UPSTOX_SDK \in BOOLEAN
    /\ sdk \in SdkSessions(HAS_UPSTOX_SDK, access_token)
    /\ position_qty = 0
    /\ total_trades = 0
    /\ last_trade_time = 0
    /\ stop = FALSE
    /\ last_price = 0
    /\ now = 0
    /\ can_trade = FALSE
    /\ pc = "start"
    /\ lastEvent = "init"
    /\ lastErr = "none"
    /\ lastOrder = NoOrder
    /\ exitReason = "none"
    /\ fetchedOk = FALSE
    /\ quoteBackend = "none"
    /\ lastResp = NoResp

\* The result of a direct get_ltp call, as the caller sees it; lastOrder and
\* lastResp describe the latest call only
QuoteReturned(res) ==
    /\ last_price' = res.price
    /\ lastErr' = res.err
    /\ lastEvent' = IF res.ok THEN "ltp_ok" ELSE "ltp_fail"
    /\ fetchedOk' = (fetchedOk \/ res.ok)

\* client.get_ltp(instrument_key), lines 76-121
CallGetLtp ==
    /\ pc = "start"
    /\ LET b == QuoteBackend(dry_run, access_token, sdk, HAS_UPSTOX_SDK) IN
       /\ quoteBackend' = b
       /\ IF b = "HTTP"
          THEN \/ \E r \in HttpResponses :
                    /\ lastResp' = r
                    /\ QuoteReturned(http_ltp(r))
               \/ /\ lastResp' = NoResp
                  /\ QuoteReturned(Err("Network"))
          ELSE /\ lastResp' = NoResp
               /\ \E res \in get_ltp : QuoteReturned(res)
    /\ lastOrder' = NoOrder
    /\ UNCHANGED <<args, client, state, stop, now, can_trade, pc, exitReason>>

\* client.place_market_order(...), lines 124-182
CallPlaceMarketOrder ==
    /\ pc = "start"
    /\ \E tt \in SideInputs, q \in Quantities :
         /\ lastOrder' = [side |-> tt, qty |-> q, pos |-> 0, stop |-> FALSE,
                          backend |-> OrderBackend(tt, q, dry_run, access_token,
                                          sdk, HAS_UPSTOX_SDK)]
         /\ \E res \in place_market_order(tt, q) :
              /\ lastErr' = res.err
              /\ lastEvent' = IF res.ok THEN "order_ok" ELSE "order_fail"
    /\ last_price' = 0
    /\ lastResp' = NoResp
    /\ UNCHANGED <<args, client, state, stop, now, can_trade, pc, exitReason,
                   fetchedOk, quoteBackend>>

GwNext == CallGetLtp \/ CallPlaceMarketOrder

GwSpec == GwInit /\ [][GwNext]_vars

\* The steps of the single loop thread: every blocking call and the sleep
\* return, so the thread always takes its next step; SIGINT may never come
EngineStep == Construct \/ LoopTop \/ Fetch \/ Buy \/ Sell \/ Sleep \/ Exit

FairSpec == Init /\ [][Next]_vars /\ WF_vars(EngineStep)

TypeOK ==
    /\ position_qty \in Int
    /\ total_trades \in Nat
    /\ pc \in {"start", "loop", "fetch", "buy", "sell", "sleep", "exit", "done", "raised"}

\* ------------------------------------------------------------ properties

\* This step called place_market_order
OrderPlaced ==
    /\ pc \in {"buy", "sell"}
    /\ pc' # pc
    /\ lastEvent' \in {"buy_ok", "buy_fail", "buy_raise",
                       "sell_ok", "sell_fail", "sell_raise"}

\* This step called place_market_order and the call raised
OrderFailed == OrderPlaced /\ lastErr' # "none"

\* This step called get_ltp
QuoteFetched == pc = "fetch" /\ pc' # "fetch"

\* C1: position_qty is always 0 or the configured quantity, never negative,
\* and it changes only from 0 to quantity on a successful buy and from
\* quantity to 0 on a successful sell.
C1_PositionFlatOrFull ==
    /\ [](position_qty >= 0 /\ position_qty \in {0, quantity})
    /\ [][position_qty' # position_qty =>
            \/ /\ position_qty = 0
               /\ position_qty' = quantity
               /\ pc = "buy" /\ lastEvent' = "buy_ok"
            \/ /\ position_qty = quantity
               /\ position_qty' = 0
               /\ pc = "sell" /\ lastEvent' = "sell_ok"]_vars

\* C1 witness: a position of the full quantity was opened and then closed
C1_Witness ==
    /\ quantity > 0
    /\ lastEvent = "sell_ok"
    /\ position_qty = 0
    /\ total_trades = 2

\* C2: every BUY call of place_market_order is made with position_qty = 0
\* and every SELL call with position_qty > 0.
C2_OrderSideMatchesPosition ==
    /\ lastOrder.side = "BUY" => lastOrder.pos = 0
    /\ lastOrder.side = "SELL" => lastOrder.pos > 0

\* C2 witness: a SELL was submitted while a position was held
C2_Witness ==
    /\ lastOrder.side = "SELL"
    /\ lastOrder.pos = quantity
    /\ pc = "sleep"

\* C3: two consecutive successful trades are at least cooldown_sec apart,
\* whatever the thresholds and the cooldown.
C3_CooldownBetweenTrades ==
    [][(total_trades' > total_trades /\ total_trades > 0) =>
          last_trade_time' - last_trade_time >= cooldown_sec]_vars

\* C4: with max_trades set, total_trades never exceeds max_trades.
C4_TradesWithinCap ==
    max_trades # None => total_trades <= max_trades

\* C5: total_trades never decreases, grows by exactly 1 on each successful
\* buy or sell, and is left alone by a failed fetch and by a failed order.
C5_TradesCountFills ==
    [][/\ total_trades' >= total_trades
       /\ (OrderPlaced /\ lastErr' = "none") => total_trades' = total_trades + 1
       /\ OrderFailed => total_trades' = total_trades
       /\ (QuoteFetched /\ lastErr' # "none") => total_trades' = total_trades
       /\ total_trades' # total_trades => OrderPlaced /\ lastErr' = "none"]_vars

\* C5 witness: an order failed after a trade had been counted
C5_Witness ==
    /\ lastEvent = "sell_fail"
    /\ total_trades = 1
    /\ position_qty = quantity

\* C6: a non-positive quantity makes run_threshold_strategy fail before the
\* loop starts, and place_market_order is never called with it.
C6_QuantityRejectedAtConstruction ==
    (quantity <= 0 /\ pc # "start") =>
        /\ pc = "raised"
        /\ lastOrder = NoOrder

\* C7: while no fetch has succeeded, StrategyState is the initial state, no
\* order has been placed and the loop is left only through cancellation;
\* without token and without dry run every fetch fails with the
\* no-credentials error, and with max_trades unset the loop ends only when
\* the cancellation flag was read.
C7_FailedFetchLeavesState ==
    /\ ~fetchedOk =>
          /\ position_qty = 0 /\ total_trades = 0 /\ last_trade_time = 0
          /\ lastOrder = NoOrder
          /\ exitReason # "propagated"
          /\ pc \in {"exit", "done"} => exitReason = "stop" /\ stop
    /\ (~access_token /\ ~dry_run) =>
          /\ ~fetchedOk
          /\ lastErr \in {"none", "NoCredentials"}
          /\ (max_trades = None /\ pc \in {"exit", "done"}) => exitReason = "stop"

\* C7 witness: a fetch failed for want of credentials and the loop polls on
C7_Witness ==
    /\ ~access_token /\ ~dry_run /\ max_trades = None
    /\ lastErr = "NoCredentials"
    /\ pc = "fetch"

\* C8: a failed place_market_order, for a buy or for a sell, leaves
\* position_qty, total_trades and last_trade_time as they were, and the
\* loop goes on to the next step of the iteration.
C8_FailedOrderLeavesState ==
    [][OrderFailed =>
          /\ UNCHANGED <<position_qty, total_trades, last_trade_time>>
          /\ pc' = (IF pc = "buy" THEN "sell" ELSE "sleep")
          /\ exitReason' = "none"]_vars

\* C8 witness: a buy was rejected by the backend and the sell check is next
C8_Witness ==
    /\ lastEvent = "buy_fail"
    /\ lastErr = "ApiError"
    /\ pc = "sell"

\* C9: the loop is left only because the cancellation flag was read or the
\* cap was reached; no exception of get_ltp or place_market_order leaves an
\* iteration.
C9_OnlyStopOrCapTerminates ==
    /\ exitReason # "propagated"
    /\ pc = "raised" => lastEvent = "construct_failed"
    /\ pc \in {"exit", "done"} =>
          /\ exitReason \in {"stop", "cap"}
          /\ exitReason = "stop" => stop
          /\ exitReason = "cap" => CapReached

\* C9 witness: after a network failure of an order the loop fetches again
C9_Witness ==
    /\ lastErr = "Network"
    /\ lastOrder.side # "NONE"
    /\ pc = "fetch"

\* C10: once total_trades has reached max_trades there is no further
\* get_ltp call and no further place_market_order call.
C10_NothingAfterCap ==
    [][CapReached => ~QuoteFetched /\ ~OrderPlaced]_vars

\* The position that follows pc inside one iteration
NextInIteration(p) ==
    CASE p = "fetch" -> {"buy", "sleep"}
      [] p = "buy"   -> {"sell"}
      [] p = "sell"  -> {"sleep"}
      [] p = "sleep" -> {"loop"}
      [] OTHER       -> {}

\* C11: the cancellation flag is read only at the top of the loop: with the
\* flag set an iteration in progress still takes its remaining steps (and
\* places its order when the conditions hold), the loop top then leaves the
\* loop, nothing is fetched or ordered after that, and once the flag is set
\* the run eventually ends.
C11_CancellationAtLoopTop ==
    /\ [][(stop /\ pc \in {"fetch", "buy", "sell", "sleep"} /\ pc' # pc) =>
             /\ pc' \in NextInIteration(pc)
             /\ (pc = "buy" /\ BuyCond) => OrderPlaced
             /\ (pc = "sell" /\ SellCond) => OrderPlaced]_vars
    /\ [][(stop /\ pc = "loop" /\ pc' # pc) =>
             pc' = "exit" /\ exitReason' = "stop"]_vars
    /\ [][exitReason = "stop" => ~QuoteFetched /\ ~OrderPlaced]_vars
    /\ (stop ~> pc = "done")

\* C11 witness: an order was placed with the flag already set, and the run
\* then ended on the flag
C11_Witness ==
    /\ lastOrder.stop
    /\ lastOrder.side = "BUY"
    /\ total_trades = 1
    /\ exitReason = "stop"
    /\ pc = "done"

\* C12: when the loop has been left the open-position warning is printed
\* exactly when position_qty > 0, and from then on no order is placed and the
\* position is not touched.
C12_WarningIffOpenPosition ==
    /\ [](pc = "done" => (lastEvent = "exit_warning" <=> position_qty > 0))
    /\ [](pc = "done" => lastEvent \in {"exit_warning", "exit_quiet"})
    /\ [][(pc \in {"exit", "done"}) =>
             /\ ~OrderPlaced
             /\ (UNCHANGED <<position_qty, total_trades, lastOrder>>)]_vars

\* C12 witness: the cap ended the run with the position still open
C12_Witness ==
    /\ pc = "done"
    /\ exitReason = "cap"
    /\ lastEvent = "exit_warning"
    /\ position_qty = quantity
    /\ quantity > 0

\* C15: with neither threshold given the call fails at once: the loop is
\* never entered, no quote is fetched, no order is placed and the state
\* stays as created.
C15_NoThresholdFailsAtStartup ==
    (buy_below = None /\ sell_above = None /\ pc # "start") =>
        /\ pc = "raised"
        /\ exitReason = "ValueError"
        /\ ~fetchedOk /\ quoteBackend = "none"
        /\ lastOrder = NoOrder
        /\ position_qty = 0 /\ total_trades = 0 /\ last_trade_time = 0
        /\ ~stop

\* C15 witness: the call raised for want of a threshold
C15_Witness ==
    /\ buy_below = None /\ sell_above = None
    /\ pc = "raised"
    /\ lastEvent = "construct_failed"

\* C16: before the first trade, with last_trade_time as initialised,
\* can_trade is true in every iteration that fetched a quote, whatever
\* cooldown_sec >= 0 and whatever the clock reads.
C16_FirstTradeNeverBlocked ==
    [][(pc = "fetch" /\ pc' = "buy" /\ total_trades = 0 /\ last_trade_time = 0)
          => can_trade']_vars

\* C17: in one iteration the buy and the sell never both fill, whatever the
\* two thresholds are.
C17_OneFillPerIteration ==
    [][~(pc = "sell" /\ lastEvent = "buy_ok" /\ lastEvent' = "sell_ok")]_vars

\* The last step was a direct place_market_order call
OrderCalled == lastEvent \in {"order_ok", "order_fail"}

\* The last step was a direct get_ltp call
QuoteCalled == lastEvent \in {"ltp_ok", "ltp_fail"}

\* C13: in dry-run mode place_market_order never reaches the HTTP or SDK
\* backend, with or without token and SDK session, and acknowledges every
\* valid order; with a token get_ltp uses the live HTTP path even in dry run.
C13_DryRunSuppressesOrdersOnly ==
    /\ (dry_run /\ lastOrder.side # "NONE") =>
          /\ lastOrder.backend \in {"DRY", "INVALID"}
          /\ (lastOrder.backend = "DRY" /\ OrderCalled) => lastEvent = "order_ok"
          /\ (Upper(lastOrder.side) \in {"BUY", "SELL"} /\ lastOrder.qty > 0)
                => lastOrder.backend = "DRY"
    /\ (dry_run /\ access_token /\ quoteBackend # "none") => quoteBackend = "HTTP"

\* C13 witness: dry run with token and SDK session: the order was
\* acknowledged locally after a quote had come over HTTP
C13_Witness ==
    /\ dry_run /\ access_token /\ sdk
    /\ quoteBackend = "HTTP"
    /\ lastEvent = "order_ok"
    /\ lastOrder.backend = "DRY"

\* C14 as claimed: a side outside {BUY, SELL} or a quantity <= 0 always ends
\* in the validation error, with no backend call and no acknowledgement.
C14_InvalidOrderRejected ==
    (OrderCalled /\ (lastOrder.side \notin {"BUY", "SELL"} \/ lastOrder.qty <= 0)) =>
        /\ lastEvent = "order_fail"
        /\ lastErr = "Validation"
        /\ lastOrder.backend = "INVALID"

\* C14 as amended: a side that is neither BUY nor SELL once upper-cased, or a
\* quantity <= 0, always ends in the validation error (a ValueError, not the
\* RuntimeError of the backends), with no backend call and no
\* acknowledgement, in every gateway mode.
C14_InvalidOrderRejectedAfterUpper ==
    (OrderCalled /\ (Upper(lastOrder.side) \notin {"BUY", "SELL"} \/ lastOrder.qty <= 0)) =>
        /\ lastEvent = "order_fail"
        /\ lastErr = "Validation"
        /\ lastOrder.backend = "INVALID"
        /\ ErrClass(lastErr) \notin
              {ErrClass(e) : e \in {"NoCredentials", "ApiError", "BadShape", "Network"}}

\* C14 witness: an unknown side was refused by a dry-run client
C14_Witness ==
    /\ dry_run
    /\ lastOrder.side = "HOLD"
    /\ lastOrder.qty > 0
    /\ lastEvent = "order_fail"
    /\ lastErr = "Validation"

\* C18: get_ltp takes exactly one of four routes: the simulator exactly when
\* dry run is set and there is no token, HTTP exactly when there is a token,
\* the SDK when there is no token but a session (and no simulator), and the
\* no-credentials error when there is none of the three.
C18_QuoteBackendPriority ==
    quoteBackend # "none" =>
        /\ quoteBackend \in {"SIM", "HTTP", "SDK", "NONE"}
        /\ quoteBackend = "SIM" <=> (dry_run /\ ~access_token)
        /\ quoteBackend = "HTTP" <=> access_token
        /\ quoteBackend = "SDK" <=> (~access_token /\ ~dry_run /\ sdk)
        /\ quoteBackend = "NONE" <=> (~access_token /\ ~dry_run /\ ~sdk)
        /\ (quoteBackend = "NONE" /\ QuoteCalled) =>
              lastEvent = "ltp_fail" /\ lastErr = "NoCredentials"
        /\ (quoteBackend = "SIM" /\ QuoteCalled) => lastEvent = "ltp_ok"

\* C18 witness: no token, no dry run, SDK importable but no session: the
\* call failed for want of credentials
C18_Witness ==
    /\ ~access_token /\ ~dry_run /\ HAS_UPSTOX_SDK
    /\ quoteBackend = "NONE"
    /\ lastEvent = "ltp_fail"
    /\ lastErr = "NoCredentials"

\* The first of ltp, last_price, last_traded_price, close that holds a
\* number, 0 included
FirstNumeric(r) ==
    IF r.ltp # None THEN r.ltp
    ELSE IF r.last_price # None THEN r.last_price
    ELSE IF r.last_traded_price # None THEN r.last_traded_price
    ELSE r.close

\* C19: over HTTP get_ltp fails exactly when the status is not a success or
\* the node holds no number under the four names, and otherwise returns the
\* first of them that holds a number, 0 included. Stated for the answers
\* without a top-level "ltp" and for calls that got an answer.
C19_FirstNumericPrice ==
    (QuoteCalled /\ quoteBackend = "HTTP" /\ lastErr # "Network"
       /\ lastResp.top = None) =>
        IF ~lastResp.ok \/ ~lastResp.hasNode \/ FirstNumeric(lastResp) = None
        THEN lastEvent = "ltp_fail"
        ELSE lastEvent = "ltp_ok" /\ last_price = FirstNumeric(lastResp)

\* C20: an SDK session exists only with an access token, and neither a
\* quote nor an order is ever served by the SDK.
C20_SdkPathNeverTaken ==
    /\ sdk => access_token
    /\ quoteBackend # "SDK"
    /\ lastOrder.backend # "SDK"

\* C20 witness: a live client with an SDK session had its quote and its
\* order both served over HTTP
C20_Witness ==
    /\ sdk /\ access_token /\ ~dry_run
    /\ quoteBackend = "HTTP"
    /\ lastOrder.backend = "HTTP"
    /\ lastEvent = "order_ok"

====
